---- MODULE Spec2Model ----
(***************************************************************************)
(* cdk-serverless-lamp: the resource descriptions declared by the three    *)
(* constructs of src/src/index.ts (ServerlessApi, ServerlessLaravel,       *)
(* DatabaseCluster), and the order in which a provisioning engine may      *)
(* create the declared database resources.                                 *)
(*                                                                         *)
(* An optional TypeScript value (`x?: T`) is a set with at most one        *)
(* element: {} is undefined, {v} is the supplied value v.                  *)
(***************************************************************************)
EXTENDS Naturals, Sequences, FiniteSets

VARIABLES
    dbProps,      \* the DatabaseProps the caller passed, {} before construction
    database,     \* the constructed DatabaseCluster object, {} before construction
    provisioned,  \* paths of the database resources the engine has created
    laravelProps, \* the ServerlessLaravelProps the caller passed, {} if none
    apiProps,     \* the ServerlessApiProps the ServerlessApi constructor received
    api           \* the constructed ServerlessApi object, {} before construction

vars == <<dbProps, database, provisioned, laravelProps, apiProps, api>>

----------------------------------------------------------------------------
(* Bounds of the model: how many distinct caller-supplied names are tried. *)

MaxInstanceTypes == 2

MaxEndpoints == 2

InstanceTypeNames == <<"t3.small", "r5.large", "m5.xlarge", "t3.medium">>

EndpointNames == <<"writer.db.local", "reader.db.local", "proxy.db.local">>

----------------------------------------------------------------------------
(* JavaScript operators used by the constructors.                          *)

undefined == {}

Some(v) == {v}

Get(opt) == CHOOSE v \in opt : TRUE

\* a ?? b
Coalesce(opt, default) == IF opt = undefined THEN default ELSE Get(opt)

\* a ?? b where b is itself optional
CoalesceOpt(opt, other) == IF opt = undefined THEN other ELSE opt

\* !x for x : boolean | undefined
JsNot(opt) == opt = undefined \/ opt = Some(FALSE)

----------------------------------------------------------------------------
(* DatabaseCluster                                                         *)

DEFAULT_MASTER_USER == "admin"

DEFAULT_INSTANCE_TYPE == "t3.medium"

AURORA_MYSQL_2_08_1 == "aurora-mysql:2.08.1"

PASSWORD_LENGTH == 12

MYSQL_PORT == 3306

CLUSTER_INSTANCES == 1

CallerVpc == "vpc-caller"

CallerEngines == {"aurora-postgresql:11.6", "aurora:5.6"}

CallerInstanceTypes == {InstanceTypeNames[i] : i \in 1..MaxInstanceTypes}

DatabaseProps ==
    [ engine             : {undefined} \cup {Some(e) : e \in CallerEngines},
      masterUserName     : {undefined, Some("laravel")},
      vpc                : {CallerVpc},
      instanceType       : {undefined} \cup {Some(t) : t \in CallerInstanceTypes},
      rdsProxy           : {undefined, Some(TRUE), Some(FALSE)},
      rdsProxyOptions    : {undefined, Some("proxy-options")},
      singleInstanceOnly : {undefined, Some(TRUE), Some(FALSE)} ]

MasterUserSecret(masterUser) ==
    [ path               |-> "DbMasterSecret",
      username           |-> masterUser,
      passwordLength     |-> PASSWORD_LENGTH,
      excludePunctuation |-> TRUE,
      includeSpace       |-> FALSE,
      generateStringKey  |-> "password" ]

DbConnectionGroup(props) ==
    [ path            |-> "DB Secuirty Group",
      vpc             |-> props.vpc,
      allowInternally |-> {MYSQL_PORT} ]

\* The guard as it would read with `!== false`.
SingleInstanceOnly_NotFalse(props) == props.singleInstanceOnly # Some(FALSE)

\* if (props.singleInstanceOnly === true)
SingleInstanceOnly(props) == props.singleInstanceOnly = Some(TRUE)

\* new rds.DatabaseInstance(this, 'DBInstance', {...})
DBInstance(props, secret, group) ==
    [ path               |-> "DBInstance",
      engine             |-> "mysql",
      masterUsername     |-> secret.path,
      masterUserPassword |-> secret.path,
      vpc                |-> props.vpc,
      securityGroups     |-> {group.path},
      instanceType       |-> props.instanceType,
      deletionProtection |-> FALSE ]

\* The children of the rds.DatabaseCluster construct after its constructor
\* ran with `instances: 1`: the subnet group, the cluster resource and one
\* member instance resource.
ClusterChildren ==
    <<[path |-> "DBCluster/Subnets", type |-> "CfnDBSubnetGroup"],
      [path |-> "DBCluster/Resource", type |-> "CfnDBCluster"]>>
    \o [i \in 1..CLUSTER_INSTANCES |->
          [path |-> "DBCluster/Instance1", type |-> "CfnDBInstance"]]

\* new rds.DatabaseCluster(this, 'DBCluster', {...})
DBCluster(props, secret, group) ==
    [ path          |-> "DBCluster",
      engine        |-> AURORA_MYSQL_2_08_1,
      instanceProps |-> [ vpc            |-> props.vpc,
                          instanceType   |-> Some(Coalesce(props.instanceType,
                                                           DEFAULT_INSTANCE_TYPE)),
                          securityGroups |-> {group.path} ],
      masterUser    |-> [username |-> secret.path, password |-> secret.path],
      instances     |-> CLUSTER_INSTANCES,
      removalPolicy |-> "DESTROY",
      children      |-> ClusterChildren ]

\* child instanceof rds.CfnDBInstance
IsCfnDBInstance(child) == child.type = "CfnDBInstance"

\* children.find(child => child instanceof rds.CfnDBInstance): the first
\* match, undefined when nothing matches
FindCfnDBInstance(children) ==
    LET hits == {i \in 1..Len(children) : IsCfnDBInstance(children[i])}
    IN  IF hits = {} THEN undefined
        ELSE Some(children[CHOOSE i \in hits : \A j \in hits : i <= j])

\* The if/else on singleInstanceOnly: which of dbInstance / dbCluster is
\* assigned, and what is pushed on _runBefore.
Topology(props, secret, group) ==
    IF SingleInstanceOnly(props)
    THEN [ dbInstance |-> Some(DBInstance(props, secret, group)),
           dbCluster  |-> undefined,
           runBefore  |-> <<>> ]
    ELSE LET cluster       == DBCluster(props, secret, group)
             cfnDbInstance == FindCfnDBInstance(cluster.children)
         IN  [ dbInstance |-> undefined,
               dbCluster  |-> Some(cluster),
               runBefore  |-> <<cfnDbInstance>> ]

\* if (!props.rdsProxy === false)
ProxyEnabled(props) == JsNot(props.rdsProxy) = FALSE

RdsProxyRole(secret) ==
    [ path      |-> "RdsProxyRole",
      assumedBy |-> "rds.amazonaws.com",
      policy    |-> { [ actions   |-> { "secretsmanager:GetResourcePolicy",
                                        "secretsmanager:GetSecretValue",
                                        "secretsmanager:DescribeSecret",
                                        "secretsmanager:ListSecretVersionIds" },
                        resources |-> {secret.path} ] } ]

ProxyOptions(props, secret, group, role) ==
    [ vpc            |-> props.vpc,
      secrets        |-> {secret.path},
      iamAuth        |-> TRUE,
      dbProxyName    |-> "stack-RDSProxy",
      securityGroups |-> {group.path},
      role           |-> role.path ]

\* target.addProxy('RDSProxy', proxyOptions): a proxy declared in the scope
\* of its target, with no dependency declared yet.
AddProxy(target, options) ==
    [ path         |-> target.path \o "/RDSProxy",
      target       |-> target.path,
      options      |-> options,
      dependencies |-> {} ]

\* The two statements with the instance's proxy not stored in this.rdsProxy.
CreateProxy_InstanceNotAssigned(topo, options) ==
    LET onCluster  == IF topo.dbCluster # undefined
                      THEN Some(AddProxy(Get(topo.dbCluster), options))
                      ELSE undefined
        onInstance == IF topo.dbInstance # undefined
                      THEN Some(AddProxy(Get(topo.dbInstance), options))
                      ELSE undefined
    IN  [ declared |-> onCluster \cup onInstance,
          rdsProxy |-> onCluster ]

\* The two `if (this.dbCluster)` / `if (this.dbInstance)` statements: the
\* proxies declared and the value left in this.rdsProxy.
CreateProxy(topo, options) ==
    LET onCluster  == IF topo.dbCluster # undefined
                      THEN Some(AddProxy(Get(topo.dbCluster), options))
                      ELSE undefined
        onInstance == IF topo.dbInstance # undefined
                      THEN Some(AddProxy(Get(topo.dbInstance), options))
                      ELSE undefined
    IN  [ declared |-> onCluster \cup onInstance,
          rdsProxy |-> CoalesceOpt(onInstance, onCluster) ]

\* this.rdsProxy?.node.addDependency(...this._runBefore)
AddDependency(proxy, runBefore) ==
    [proxy EXCEPT !.dependencies =
        @ \cup {runBefore[i] : i \in 1..Len(runBefore)}]

\* constructor(scope, id, props): the object's fields and every resource
\* declared in its scope.
DatabaseCluster(props) ==
    LET masterUser == Coalesce(props.masterUserName, DEFAULT_MASTER_USER)
        secret     == MasterUserSecret(masterUser)
        group      == DbConnectionGroup(props)
        topo       == Topology(props, secret, group)
        role       == RdsProxyRole(secret)
        created    == CreateProxy(topo, ProxyOptions(props, secret, group, role))
        final(p)   == IF Some(p) = created.rdsProxy
                      THEN AddDependency(p, topo.runBefore)
                      ELSE p
    IN  [ masterUser     |-> masterUser,
          masterPassword |-> secret.path,
          dbInstance     |-> topo.dbInstance,
          dbCluster      |-> topo.dbCluster,
          runBefore      |-> topo.runBefore,
          rdsProxy       |-> IF ProxyEnabled(props)
                             THEN {final(p) : p \in created.rdsProxy}
                             ELSE undefined,
          secrets        |-> {secret},
          securityGroups |-> {group},
          instances      |-> topo.dbInstance,
          clusters       |-> topo.dbCluster,
          roles          |-> IF ProxyEnabled(props) THEN {role} ELSE {},
          proxies        |-> IF ProxyEnabled(props)
                             THEN {final(p) : p \in created.declared}
                             ELSE {} ]

----------------------------------------------------------------------------
(* The database resources as the provisioning engine sees them: each       *)
(* declared resource with the resources it must be created after, which    *)
(* are the ones it references in index.ts and, for the proxy, the          *)
(* dependencies declared with addDependency.                               *)

DependablePaths(deps) == {Get(d).path : d \in {x \in deps : x # undefined}}

ResourceGraph(db) ==
       { [path |-> s.path, dependsOn |-> {}] : s \in db.secrets }
  \cup { [path |-> g.path, dependsOn |-> {}] : g \in db.securityGroups }
  \cup { [path |-> i.path,
          dependsOn |-> {i.masterUsername, i.masterUserPassword}
                        \cup i.securityGroups] : i \in db.instances }
  \cup { [path |-> c.path,
          dependsOn |-> {c.masterUser.username, c.masterUser.password}
                        \cup c.instanceProps.securityGroups] : c \in db.clusters }
  \cup UNION { { [path |-> c.children[k].path, dependsOn |-> {c.path}]
                 : k \in {j \in 1..Len(c.children) : IsCfnDBInstance(c.children[j])} }
               : c \in db.clusters }
  \cup { [path |-> r.path, dependsOn |-> {}] : r \in db.roles }
  \cup { [path |-> p.path,
          dependsOn |-> p.options.secrets \cup p.options.securityGroups
                        \cup {p.options.role}
                        \cup DependablePaths(p.dependencies)] : p \in db.proxies }

----------------------------------------------------------------------------
(* ServerlessApi and ServerlessLaravel                                     *)

DEFAULT_LAMBDA_ASSET_PATH == "../composer/laravel58-bref"

DEFAULT_DB_MASTER_USER == "admin"

APP_STORAGE == "/tmp"

TIMEOUT_SECONDS == 120

MAX_AZS == 3

NAT_GATEWAYS == 1

BrefLayer == "arn:aws:lambda:ap-northeast-1:209497400698:layer:php-74-fpm:11"

Endpoints == {""} \cup {EndpointNames[i] : i \in 1..MaxEndpoints}

DatabaseConfig ==
    [ writerEndpoint           : Endpoints,
      readerEndpoint           : {undefined} \cup {Some(e) : e \in Endpoints},
      masterUserName           : {undefined, Some("laravel")},
      masterUserPasswordSecret : {undefined} ]

ProxyRefs == { [dbProxyArn |-> "arn:aws:rds:ap-northeast-1:proxy/stack-RDSProxy"] }

ServerlessApiProps ==
    [ handler          : {undefined, Some("custom-function")},
      lambdaCodePath   : {undefined, Some("/app/bundle")},
      brefLayerVersion : {BrefLayer},
      vpc              : {undefined, Some(CallerVpc)},
      databaseConfig   : {undefined} \cup {Some(c) : c \in DatabaseConfig},
      rdsProxy         : {undefined} \cup {Some(r) : r \in ProxyRefs} ]

ServerlessLaravelProps ==
    { [ laravelPath      |-> l,
        handler          |-> p.handler,
        lambdaCodePath   |-> p.lambdaCodePath,
        brefLayerVersion |-> p.brefLayerVersion,
        vpc              |-> p.vpc,
        databaseConfig   |-> p.databaseConfig,
        rdsProxy         |-> p.rdsProxy ]
      : l \in {"/app/codebase", "/app/bundle"}, p \in ServerlessApiProps }

\* props.databaseConfig?.writerEndpoint
WriterEndpoint(props) ==
    IF props.databaseConfig = undefined THEN undefined
    ELSE Some(Get(props.databaseConfig).writerEndpoint)

\* props.databaseConfig?.readerEndpoint
ReaderEndpoint(props) ==
    IF props.databaseConfig = undefined THEN undefined
    ELSE Get(props.databaseConfig).readerEndpoint

\* props.databaseConfig?.masterUserName
MasterUserName(props) ==
    IF props.databaseConfig = undefined THEN undefined
    ELSE Get(props.databaseConfig).masterUserName

\* The environment with DB_READER not falling back to the writer endpoint.
Environment_ReaderNoFallback(props) ==
    [ APP_STORAGE |-> APP_STORAGE,
      DB_WRITER   |-> Coalesce(WriterEndpoint(props), ""),
      DB_READER   |-> Coalesce(ReaderEndpoint(props), ""),
      DB_USER     |-> Coalesce(MasterUserName(props), DEFAULT_DB_MASTER_USER) ]

\* environment: { APP_STORAGE, DB_WRITER, DB_READER, DB_USER }
Environment(props) ==
    [ APP_STORAGE |-> APP_STORAGE,
      DB_WRITER   |-> Coalesce(WriterEndpoint(props), ""),
      DB_READER   |-> Coalesce(CoalesceOpt(ReaderEndpoint(props),
                                           WriterEndpoint(props)), ""),
      DB_USER     |-> Coalesce(MasterUserName(props), DEFAULT_DB_MASTER_USER) ]

\* this.vpc = props.vpc ?? new Vpc(this, 'Vpc', { maxAzs:3, natGateways: 1})
VpcChoice(props) ==
    IF props.vpc = undefined
    THEN [ vpc  |-> "Vpc",
           vpcs |-> { [path |-> "Vpc", maxAzs |-> MAX_AZS,
                       natGateways |-> NAT_GATEWAYS] } ]
    ELSE [ vpc |-> Get(props.vpc), vpcs |-> {} ]

\* new lambda.Function(this, 'handler', {...})
Function(props, vpc) ==
    [ path        |-> "handler",
      runtime     |-> "provided",
      handler     |-> "public/index.php",
      layers      |-> {props.brefLayerVersion},
      code        |-> Coalesce(props.lambdaCodePath, DEFAULT_LAMBDA_ASSET_PATH),
      environment |-> Environment(props),
      timeout     |-> TIMEOUT_SECONDS,
      vpc         |-> vpc ]

\* The handler with the supplied one ignored.
HandlerChoice_AlwaysNew(props, vpc) ==
    [ handler   |-> Function(props, vpc).path,
      functions |-> {Function(props, vpc)} ]

\* this.handler = props.handler ?? new lambda.Function(...): the function is
\* declared only when no handler was supplied.
HandlerChoice(props, vpc) ==
    IF props.handler = undefined
    THEN [ handler   |-> Function(props, vpc).path,
           functions |-> {Function(props, vpc)} ]
    ELSE [ handler |-> Get(props.handler), functions |-> {} ]

\* The grant with a wildcard resource.
RdsProxyGrant_Wildcard(props, handler) ==
    IF props.rdsProxy # undefined
    THEN { [ principal |-> handler,
             actions   |-> {"rds-db:connect"},
             resources |-> {"*"} ] }
    ELSE {}

\* if(props.rdsProxy) { this.handler.addToRolePolicy(...) }
RdsProxyGrant(props, handler) ==
    IF props.rdsProxy # undefined
    THEN { [ principal |-> handler,
             actions   |-> {"rds-db:connect"},
             resources |-> {Get(props.rdsProxy).dbProxyArn} ] }
    ELSE {}

\* constructor(scope, id, props) of ServerlessApi: the object's fields and
\* every resource declared in its scope.
ServerlessApi(props) ==
    LET net    == VpcChoice(props)
        chosen == HandlerChoice(props, net.vpc)
    IN  [ vpc       |-> net.vpc,
          handler   |-> chosen.handler,
          vpcs      |-> net.vpcs,
          functions |-> chosen.functions,
          grants    |-> RdsProxyGrant(props, chosen.handler),
          httpApis  |-> { [ path |-> "apiservice",
                            defaultIntegration |-> [handler |-> chosen.handler] ] },
          outputs   |-> { [path |-> "EndpointURL", value |-> "apiservice.url"] } ]

\* The super() props with an inherited lambdaCodePath kept over laravelPath.
LaravelSuperProps_KeepsCodePath(props) ==
    [ lambdaCodePath   |-> CoalesceOpt(props.lambdaCodePath, Some(props.laravelPath)),
      brefLayerVersion |-> props.brefLayerVersion,
      handler          |-> props.handler,
      vpc              |-> props.vpc,
      databaseConfig   |-> props.databaseConfig,
      rdsProxy         |-> props.rdsProxy ]

\* The props ServerlessLaravel hands to super().
LaravelSuperProps(props) ==
    [ lambdaCodePath   |-> Some(props.laravelPath),
      brefLayerVersion |-> props.brefLayerVersion,
      handler          |-> props.handler,
      vpc              |-> props.vpc,
      databaseConfig   |-> props.databaseConfig,
      rdsProxy         |-> props.rdsProxy ]

----------------------------------------------------------------------------
(* Actions.                                                                 *)

InitState ==
    /\ dbProps = undefined
    /\ database = undefined
    /\ provisioned = {}
    /\ laravelProps = undefined
    /\ apiProps = undefined
    /\ api = undefined

\* new DatabaseCluster(stack, 'DatabaseCluster', props)
NewDatabaseCluster ==
    /\ database = undefined
    /\ \E props \in DatabaseProps :
          /\ dbProps' = Some(props)
          /\ database' = Some(DatabaseCluster(props))
    /\ UNCHANGED <<provisioned, laravelProps, apiProps, api>>

\* The engine creates one declared resource all of whose dependencies exist.
Provision ==
    /\ database # undefined
    /\ \E r \in ResourceGraph(Get(database)) :
          /\ r.path \notin provisioned
          /\ r.dependsOn \subseteq provisioned
          /\ provisioned' = provisioned \cup {r.path}
    /\ UNCHANGED <<dbProps, database, laravelProps, apiProps, api>>

NextDatabase == NewDatabaseCluster \/ Provision

SpecDatabase == InitState /\ [][NextDatabase]_vars

\* new ServerlessApi(stack, id, props)
NewServerlessApi ==
    /\ api = undefined
    /\ \E props \in ServerlessApiProps :
          /\ apiProps' = Some(props)
          /\ api' = Some(ServerlessApi(props))
    /\ UNCHANGED <<dbProps, database, provisioned, laravelProps>>

\* new ServerlessLaravel(stack, id, props)
NewServerlessLaravel ==
    /\ api = undefined
    /\ \E props \in ServerlessLaravelProps :
          /\ laravelProps' = Some(props)
          /\ apiProps' = Some(LaravelSuperProps(props))
          /\ api' = Some(ServerlessApi(LaravelSuperProps(props)))
    /\ UNCHANGED <<dbProps, database, provisioned>>

NextApi == NewServerlessApi \/ NewServerlessLaravel

SpecApi == InitState /\ [][NextApi]_vars

----------------------------------------------------------------------------
(* Properties of DatabaseCluster, checked under SpecDatabase.              *)

\* The database instance resource a proxy stands in front of: the single
\* instance itself, or the member instance resource of the cluster.
TargetInstancePaths(db, proxy) ==
       {i.path : i \in {x \in db.instances : x.path = proxy.target}}
  \cup UNION { {c.children[k].path
                 : k \in {j \in 1..Len(c.children) : IsCfnDBInstance(c.children[j])}}
               : c \in {x \in db.clusters : x.path = proxy.target} }

\* C1: the description holds exactly one proxy, with IAM authentication,
\* when the rdsProxy flag is omitted or anything but the literal false, and
\* no proxy and no proxy role when it is the literal false.
C1_ProxyUnlessLiteralFalse ==
    database # undefined =>
        LET db    == Get(database)
            props == Get(dbProps)
        IN  IF props.rdsProxy = Some(FALSE)
            THEN db.proxies = {} /\ db.roles = {} /\ db.rdsProxy = undefined
            ELSE /\ Cardinality(db.proxies) = 1
                 /\ \A p \in db.proxies : p.options.iamAuth = TRUE

\* C2: after construction exactly one of dbInstance and dbCluster exists:
\* one cluster and no standalone instance when singleInstanceOnly is unset
\* or false, one standalone instance and no cluster when it is true.
C2_ExactlyOneTopology ==
    database # undefined =>
        LET db    == Get(database)
            props == Get(dbProps)
        IN  /\ (db.dbInstance = undefined) # (db.dbCluster = undefined)
            /\ db.instances = db.dbInstance
            /\ db.clusters = db.dbCluster
            /\ IF props.singleInstanceOnly = Some(TRUE)
               THEN Cardinality(db.instances) = 1 /\ db.clusters = {}
               ELSE Cardinality(db.clusters) = 1 /\ db.instances = {}

C2_Witness ==
    /\ database # undefined
    /\ Get(dbProps).singleInstanceOnly = Some(TRUE)
    /\ Cardinality(Get(database).instances) = 1
    /\ "DBInstance" \in provisioned

\* C3: in either topology a declared proxy depends on the database instance
\* resource recorded as its predecessor (the single instance, or the
\* cluster's member instance), on nothing unrelated or missing, and so the
\* engine never creates the proxy before that instance exists.
C3_ProxyAfterDatabase ==
    database # undefined =>
        LET db == Get(database)
        IN  \A p \in db.proxies :
               /\ undefined \notin p.dependencies
               /\ DependablePaths(p.dependencies) # {}
               /\ DependablePaths(p.dependencies) \subseteq TargetInstancePaths(db, p)
               /\ p.path \in provisioned => TargetInstancePaths(db, p) \subseteq provisioned

\* C7: in both topologies the declared database is sized by the caller's
\* instanceType when supplied and by t3.medium when it is omitted.
C7_SameSizing ==
    database # undefined =>
        LET db   == Get(database)
            want == Some(Coalesce(Get(dbProps).instanceType, DEFAULT_INSTANCE_TYPE))
        IN  /\ \A i \in db.instances : i.instanceType = want
            /\ \A c \in db.clusters : c.instanceProps.instanceType = want

\* C8: the declared cluster uses the caller's engine when props.engine is
\* supplied and the default Aurora MySQL engine when it is omitted.
C8_EngineChoice ==
    database # undefined =>
        \A c \in Get(database).clusters :
            c.engine = Coalesce(Get(dbProps).engine, AURORA_MYSQL_2_08_1)

\* C10: at most one proxy is declared; a declared proxy is attached to the
\* topology object created in the same construction; the rdsProxy output is
\* that proxy, and is undefined exactly when no proxy was declared.
C10_ProxyTargetsCreatedTopology ==
    database # undefined =>
        LET db == Get(database)
        IN  /\ Cardinality(db.proxies) <= 1
            /\ db.rdsProxy = db.proxies
            /\ \A p \in db.proxies :
                  /\ db.dbCluster # undefined =>
                        p.target = Get(db.dbCluster).path /\ db.dbInstance = undefined
                  /\ db.dbInstance # undefined =>
                        p.target = Get(db.dbInstance).path /\ db.dbCluster = undefined
                  /\ p.target \in {c.path : c \in db.clusters}
                                  \cup {i.path : i \in db.instances}

C10_Witness ==
    /\ database # undefined
    /\ Get(database).dbInstance # undefined
    /\ Get(database).rdsProxy # undefined
    /\ \E p \in Get(database).proxies : p.path \in provisioned

----------------------------------------------------------------------------
(* Properties of ServerlessApi and ServerlessLaravel, checked under        *)
(* SpecApi.                                                                *)

\* C4: when no custom handler is supplied the declared function's
\* environment is DB_WRITER = writerEndpoint ("" without databaseConfig),
\* DB_READER = readerEndpoint if supplied, else the writer endpoint, else
\* "", DB_USER = masterUserName if supplied, else "admin", APP_STORAGE =
\* "/tmp".
C4_Environment ==
    (api # undefined /\ Get(apiProps).handler = undefined) =>
        LET props == Get(apiProps)
        IN  /\ Get(api).functions # {}
            /\ \A f \in Get(api).functions :
                  /\ f.environment.APP_STORAGE = "/tmp"
                  /\ IF props.databaseConfig = undefined
                     THEN /\ f.environment.DB_WRITER = ""
                          /\ f.environment.DB_READER = ""
                          /\ f.environment.DB_USER = "admin"
                     ELSE LET cfg == Get(props.databaseConfig)
                          IN  /\ f.environment.DB_WRITER = cfg.writerEndpoint
                              /\ f.environment.DB_READER =
                                    IF cfg.readerEndpoint # undefined
                                    THEN Get(cfg.readerEndpoint)
                                    ELSE cfg.writerEndpoint
                              /\ f.environment.DB_USER =
                                    IF cfg.masterUserName # undefined
                                    THEN Get(cfg.masterUserName)
                                    ELSE "admin"

C4_Witness ==
    /\ api # undefined
    /\ Get(apiProps).handler = undefined
    /\ Get(apiProps).databaseConfig # undefined
    /\ Get(Get(apiProps).databaseConfig).readerEndpoint = undefined
    /\ Get(Get(apiProps).databaseConfig).writerEndpoint # ""
    /\ \E f \in Get(api).functions :
          f.environment.DB_READER = Get(Get(apiProps).databaseConfig).writerEndpoint

\* C5: the handler behind the HTTP endpoint is granted rds-db:connect on
\* exactly the supplied proxy's ARN if and only if an rdsProxy reference is
\* supplied; otherwise the description holds no proxy-access grant.
C5_GrantIffProxy ==
    api # undefined =>
        LET props == Get(apiProps)
            a     == Get(api)
        IN  IF props.rdsProxy = undefined
            THEN a.grants = {}
            ELSE /\ Cardinality(a.grants) = 1
                 /\ \A g \in a.grants :
                       /\ g.actions = {"rds-db:connect"}
                       /\ g.resources = {Get(props.rdsProxy).dbProxyArn}
                       /\ \A e \in a.httpApis :
                             g.principal = e.defaultIntegration.handler

C5_Witness ==
    /\ api # undefined
    /\ Get(apiProps).rdsProxy # undefined
    /\ Get(apiProps).databaseConfig = undefined
    /\ Get(api).grants # {}

\* C6: a supplied handler takes precedence over lambdaCodePath: no function
\* is declared and the endpoint targets that handler. Without a handler
\* exactly one function is declared, from lambdaCodePath or the default
\* asset path, with a 120-second timeout, in the given or the newly created
\* VPC, and the endpoint targets it. Exactly one endpoint is declared.
C6_HandlerPrecedence ==
    api # undefined =>
        LET props == Get(apiProps)
            a     == Get(api)
        IN  /\ Cardinality(a.httpApis) = 1
            /\ \A e \in a.httpApis : e.defaultIntegration.handler = a.handler
            /\ IF props.vpc = undefined
               THEN Cardinality(a.vpcs) = 1 /\ \A v \in a.vpcs : v.path = a.vpc
               ELSE a.vpcs = {} /\ a.vpc = Get(props.vpc)
            /\ IF props.handler # undefined
               THEN a.functions = {} /\ a.handler = Get(props.handler)
               ELSE /\ Cardinality(a.functions) = 1
                    /\ \A f \in a.functions :
                          /\ f.path = a.handler
                          /\ f.code = IF props.lambdaCodePath = undefined
                                      THEN DEFAULT_LAMBDA_ASSET_PATH
                                      ELSE Get(props.lambdaCodePath)
                          /\ f.timeout = 120
                          /\ f.vpc = a.vpc

C6_Witness ==
    /\ api # undefined
    /\ Get(apiProps).handler # undefined
    /\ Get(apiProps).lambdaCodePath # undefined
    /\ Get(api).functions = {}
    /\ \E e \in Get(api).httpApis :
          e.defaultIntegration.handler = Get(Get(apiProps).handler)

\* C9: ServerlessLaravel(p) produces the description ServerlessApi produces
\* for lambdaCodePath = p.laravelPath with brefLayerVersion, handler, vpc,
\* databaseConfig and rdsProxy taken unchanged from p.
C9_LaravelIsRenaming ==
    (api # undefined /\ laravelProps # undefined) =>
        LET p == Get(laravelProps)
        IN  api = Some(ServerlessApi(
                     [ handler          |-> p.handler,
                       lambdaCodePath   |-> Some(p.laravelPath),
                       brefLayerVersion |-> p.brefLayerVersion,
                       vpc              |-> p.vpc,
                       databaseConfig   |-> p.databaseConfig,
                       rdsProxy         |-> p.rdsProxy ]))

C9_Witness ==
    /\ api # undefined
    /\ laravelProps # undefined
    /\ Get(laravelProps).handler = undefined
    /\ Get(laravelProps).lambdaCodePath # undefined
    /\ Get(laravelProps).lambdaCodePath # Some(Get(laravelProps).laravelPath)
    /\ Get(laravelProps).rdsProxy # undefined
    /\ \E f \in Get(api).functions : f.code = Get(laravelProps).laravelPath

====
